---- MODULE Spec2Model ----
(***************************************************************************)
(* Model of the /submit-quote handler of src/server.js (lines 563-726) and *)
(* of its helpers findRowByUUID, appendToSheet, updateRow and sendEmail    *)
(* (lines 441-539).  The spreadsheet, the mail service, the caller's       *)
(* cookie jar and the requests in flight are the state; every await of the *)
(* handler is a point where another request may run.                       *)
(***************************************************************************)
EXTENDS Integers, Sequences, FiniteSets, TLC

VARIABLES
    sheet,      \* data rows of Sheet1; sheet[i] is spreadsheet row i + 1
    req,        \* the request handled in each slot, with its local variables
    jar,        \* the caller's shiftraa_uuid cookie (Absent when not set)
    now,        \* the clock read by new Date()
    minted,     \* number of identifiers uuidv4() has produced
    started,    \* number of requests received so far
    serial      \* TRUE while no two requests have ever overlapped

vars == <<sheet, req, jar, now, minted, started, serial>>

-----------------------------------------------------------------------------
(* Bounds *)

MaxRequests == 2
MaxInFlight == 2

Slots == 1..MaxInFlight

-----------------------------------------------------------------------------
(* JavaScript values *)

\* undefined: a missing cookie, a missing body key, a missing object key
Absent == "__undefined__"

\* the null returned by findRowByUUID when no row matches
NotFound == 0

\* the first data row is spreadsheet row 2 (rowIndex + 2, A2:A, A2:T2)
FirstDataRow == 2

Truthy(v) == v # Absent /\ v # ""

\* a || b
Or(a, b) == IF Truthy(a) THEN a ELSE b

\* obj[k], undefined when obj has no key k
Get(obj, k) == IF k \in DOMAIN obj THEN obj[k] ELSE Absent

\* {}
EmptyObj == [k \in {} |-> ""]

\* { ...a, ...b }
Spread(a, b) ==
    [k \in DOMAIN a \cup DOMAIN b |-> IF k \in DOMAIN b THEN b[k] ELSE a[k]]

\* { k: v }
Prop(k, v) == [x \in {k} |-> v]

-----------------------------------------------------------------------------
(* The column schema and the row codec *)

sheetColumns ==
    << "uuid", "timestamp", "name", "phone", "email", "move_scope",
       "home_type_details", "vehicle_selection", "moving_date", "requirements",
       "current_address", "new_address", "current_city", "new_city",
       "current_country", "from_city_international", "new_country",
       "to_city_international", "estimated_cost", "distance" >>

NumCols == Len(sheetColumns)

ColIndex(col) == CHOOSE i \in 1..NumCols : sheetColumns[i] = col

\* the blank row that insertRange creates
BlankRow == [i \in 1..NumCols |-> ""]

IsBlank(row) == \A i \in 1..NumCols : row[i] = ""

\* values.get drops the trailing empty cells of a row
RECURSIVE TrimRow(_)
TrimRow(row) ==
    IF row = <<>> THEN <<>>
    ELSE IF row[Len(row)] = "" THEN TrimRow(SubSeq(row, 1, Len(row) - 1))
    ELSE row

\* a decode that stops one column early
DecodeRowOffByOne(values) ==
    [col \in {sheetColumns[i] : i \in 1..NumCols} |->
        LET i == ColIndex(col) IN
        IF i < Len(values) THEN Or(values[i], "") ELSE ""]

\* existingData[col] = existingRowValues[i] || ''
DecodeRow(values) ==
    [col \in {sheetColumns[i] : i \in 1..NumCols} |->
        LET i == ColIndex(col) IN
        IF i <= Len(values) THEN Or(values[i], "") ELSE ""]

\* sheetColumns.map(colName => ...)
EncodeRow(finalData) ==
    [i \in 1..NumCols |->
        IF /\ sheetColumns[i] = "phone"
           /\ Truthy(Get(finalData, "phone_country_code"))
           /\ Truthy(Get(finalData, "phone_number"))
        THEN finalData["phone_country_code"] \o finalData["phone_number"]
        ELSE Or(Get(finalData, sheetColumns[i]), "")]

-----------------------------------------------------------------------------
(* Merge *)

\* new Date().toISOString()
TimeStr(t) == "t" \o ToString(t)

\* a merge that forgets the stored row
MergeDropsExisting(existingData, data, uuid) ==
    Spread(data, Prop("uuid", uuid))

\* finalData = { ...existingData, ...data, uuid: uuid }
MergeExisting(existingData, data, uuid) ==
    Spread(Spread(existingData, data), Prop("uuid", uuid))

\* a new record whose timestamp key is spread before the payload
NewRecordPayloadLast(data, uuid, t) ==
    Spread(Spread(Prop("timestamp", TimeStr(t)), data), Prop("uuid", uuid))

\* finalData = { ...data, uuid: uuid, timestamp: new Date().toISOString() }
NewRecord(data, uuid, t) ==
    Spread(Spread(data, Prop("uuid", uuid)), Prop("timestamp", TimeStr(t)))

-----------------------------------------------------------------------------
(* Session resolution and row lookup *)

\* uuidv4(): the n-th identifier produced
MintedId(n) == "m" \o ToString(n)

\* the id of the payload is preferred to the cookie
ResolveUUIDPayloadFirst(cookie, data, fresh) ==
    Or(Get(data, "uuid"), Or(cookie, fresh))

\* req.cookies.shiftraa_uuid || data.uuid || uuidv4()
ResolveUUID(cookie, data, fresh) == Or(cookie, Or(Get(data, "uuid"), fresh))

\* a lookup that returns the last match, as findLastIndex would
findLastRowByUUID(rows, uuid) ==
    LET hits == {i \in 1..Len(rows) : rows[i][1] = uuid} IN
    IF hits = {} THEN NotFound
    ELSE (CHOOSE i \in hits : \A j \in hits : i >= j) - 1 + FirstDataRow

\* rows.findIndex(row => row[0] === uuid); rowIndex >= 0 ? rowIndex + 2 : null
findRowByUUID(rows, uuid) ==
    LET hits == {i \in 1..Len(rows) : rows[i][1] = uuid} IN
    IF hits = {} THEN NotFound
    ELSE (CHOOSE i \in hits : \A j \in hits : i <= j) - 1 + FirstDataRow

\* the data row at spreadsheet row n
RowAt(rows, n) == rows[n - FirstDataRow + 1]

HasRow(rows, n) == n >= FirstDataRow /\ n - FirstDataRow + 1 <= Len(rows)

-----------------------------------------------------------------------------
(* Requests the caller can send *)

\* the phase-1 payload: name, split phone, move scope and moving date
DataContact ==
    [name |-> "Jane", phone_country_code |-> "+1", phone_number |-> "5551234",
     move_scope |-> "Local", moving_date |-> "2024-05-01"]

\* the phase-2 payload: the addresses of a local move
DataAddress ==
    [current_address |-> "1 Main St", new_address |-> "2 Oak Ave"]

\* a payload that carries the identity keys itself, an empty name, an
\* email and a new split phone
DataForged ==
    [uuid |-> "b", timestamp |-> "tX", name |-> "",
     email |-> "jane@example.com",
     phone_country_code |-> "+44", phone_number |-> "777"]

Payloads == {DataContact, DataAddress, DataForged}

\* req.body: data and part may each be missing, part may be any string
Bodies ==
    [hasData : {TRUE}, data : Payloads, part : {"1", "2"}]
    \cup {[hasData |-> FALSE, data |-> EmptyObj, part |-> "1"],
          [hasData |-> TRUE, data |-> DataContact, part |-> Absent],
          [hasData |-> TRUE, data |-> DataContact, part |-> "3"]}

\* the request carries the token the caller holds, or no token
Cookies == {jar, Absent}

\* the row an earlier phase-1 submission of session "b" left in the sheet
StoredRow == EncodeRow(NewRecord(DataContact, "b", 0))

-----------------------------------------------------------------------------
(* Request state *)

IdleReq ==
    [pc |-> "idle", part |-> Absent, hasData |-> FALSE, data |-> EmptyObj,
     cookie |-> Absent, uuid |-> Absent, rowIndex |-> NotFound,
     merged |-> FALSE, existingData |-> EmptyObj, finalData |-> EmptyObj,
     sheetData |-> <<>>, storeCalls |-> <<>>, wrote |-> "none",
     mails |-> <<>>, threw |-> "none", setCookie |-> "none", status |-> 0,
     seq |-> 0, pre |-> <<>>, jarBefore |-> Absent, quiet |-> TRUE,
     alone |-> TRUE]

InFlight(r) == req[r].pc \notin {"idle", "done"}

Free(r) == ~InFlight(r)

\* a new request takes the free slot whose request is the oldest
LeastRecent(r, q) ==
    \/ req[r].seq < req[q].seq
    \/ req[r].seq = req[q].seq /\ r <= q

\* res.status(code).json(...): the response ends the request and its
\* Set-Cookie header, if any, reaches the caller
Respond(rq, code) == [rq EXCEPT !.pc = "done", !.status = code]

JarAfter(rq) ==
    CASE rq.setCookie = "set" -> rq.uuid
      [] rq.setCookie = "clear" -> Absent
      [] OTHER -> jar

\* a catch that answers with the success status
HandlerCatchSuccess(rq, what) == Respond([rq EXCEPT !.threw = what], 200)

\* catch (error) { res.status(500).json(...) }
HandlerCatch(rq, what) == Respond([rq EXCEPT !.threw = what], 500)

Init ==
    /\ sheet \in {<<>>, <<StoredRow>>}
    /\ req = [r \in Slots |-> IdleReq]
    /\ jar = Absent
    /\ now = 0
    /\ minted = 0
    /\ started = 0
    /\ serial = TRUE

-----------------------------------------------------------------------------
(* The spreadsheet service *)

\* values.update on Sheet1!A<n>:T<n>: sets the cells of spreadsheet row n
WriteRow(rows, n, values) ==
    LET k == n - FirstDataRow + 1
        padded == [i \in 1..(IF k > Len(rows) THEN k ELSE Len(rows)) |->
                      IF i <= Len(rows) THEN rows[i] ELSE BlankRow]
    IN [padded EXCEPT ![k] = values]

\* an insertRange with an empty range: no row is inserted
InsertNoRow(rows) == rows

\* the new row is added below the last row, as values.append would
InsertRowAtBottom(rows) == rows \o <<BlankRow>>

\* batchUpdate insertRange, startRowIndex 1, endRowIndex 2, shiftDimension
\* ROWS: a blank row appears at row 2, every data row moves down by one
InsertRowAtTop(rows) == <<BlankRow>> \o rows

-----------------------------------------------------------------------------
(* The handler, one action per await *)

\* the API call a request is waiting for
CallOf(pc) ==
    CASE pc = "find" -> "scan"
      [] pc = "read" -> "read"
      [] pc = "meta" -> "meta"
      [] pc = "insertRange" -> "insertRange"
      [] pc = "writeTop" -> "write"
      [] pc = "update" -> "write"
      [] OTHER -> "none"

Called(rq) == [rq EXCEPT !.storeCalls = Append(@, CallOf(rq.pc))]

\* a validation that only tests for presence
InvalidPresenceOnly(body) == ~body.hasData \/ ~Truthy(body.part)

\* !data || !part || !['1', '2'].includes(part)
Invalid(body) ==
    ~body.hasData \/ ~Truthy(body.part) \/ body.part \notin {"1", "2"}

\* the cookie is set without the test of the part
AfterWriteAlwaysSets(rq, kind) ==
    [rq EXCEPT !.wrote = kind, !.setCookie = "set", !.pc = "mailOwner"]

\* if (part === '1') res.cookie('shiftraa_uuid', uuid, ...), then the
\* handler reaches its first sendEmail
AfterWrite(rq, kind) ==
    [rq EXCEPT !.wrote = kind,
               !.setCookie = IF rq.part = "1" THEN "set" ELSE @,
               !.pc = "mailOwner"]

\* res.clearCookie('shiftraa_uuid'); res.status(200).json({uuid, ...})
FinishPart2(rq) == Respond([rq EXCEPT !.setCookie = "clear"], 200)

\* a request arrives: validation, then the session id, then the scan is
\* issued
SubmitQuote(r, body, cookie) ==
    /\ started < MaxRequests
    /\ Free(r)
    /\ \A q \in Slots : Free(q) => LeastRecent(r, q)
    /\ LET quiet == \A q \in Slots : ~InFlight(q)
           needMint == ~Truthy(cookie) /\ ~Truthy(Get(body.data, "uuid"))
           arrived == [IdleReq EXCEPT !.part = body.part,
                                      !.hasData = body.hasData,
                                      !.data = body.data,
                                      !.cookie = cookie,
                                      !.seq = started + 1,
                                      !.pre = sheet,
                                      !.jarBefore = jar,
                                      !.quiet = quiet,
                                      !.alone = quiet]
           resolved == [arrived EXCEPT
                           !.uuid = ResolveUUID(cookie, body.data,
                                                MintedId(minted + 1)),
                           !.pc = "find"]
       IN /\ req' = [q \in Slots |->
                       IF q = r
                       THEN IF Invalid(body) THEN Respond(arrived, 400)
                            ELSE resolved
                       ELSE IF InFlight(q) THEN [req[q] EXCEPT !.alone = FALSE]
                            ELSE req[q]]
          /\ minted' = IF ~Invalid(body) /\ needMint THEN minted + 1
                       ELSE minted
          /\ serial' = (serial /\ quiet)
    /\ started' = started + 1
    /\ now' = now + 1
    /\ UNCHANGED <<sheet, jar>>

\* app.post('/submit-quote'): any body, with or without the caller's token
Submit(r) ==
    \E body \in Bodies, cookie \in Cookies : SubmitQuote(r, body, cookie)

\* findRowByUUID returns; on a miss, or in part 1, the new record is built
Find(r) ==
    /\ req[r].pc = "find"
    /\ LET rq == Called(req[r])
           idx == findRowByUUID(sheet, rq.uuid)
           fd == NewRecord(rq.data, rq.uuid, now)
       IN req' = [req EXCEPT ![r] =
                    IF rq.part = "2" /\ idx # NotFound
                    THEN [rq EXCEPT !.rowIndex = idx, !.pc = "read"]
                    ELSE [rq EXCEPT !.rowIndex = idx,
                                    !.finalData = fd,
                                    !.sheetData = EncodeRow(fd),
                                    !.pc = "meta"]]
    /\ UNCHANGED <<sheet, jar, now, minted, started, serial>>

\* the read of the existing row returns; the row is decoded and merged.
\* An empty range has no values, so values[0] throws a TypeError
ReadExisting(r) ==
    /\ req[r].pc = "read"
    /\ LET rq == Called(req[r])
           values == IF HasRow(sheet, rq.rowIndex)
                     THEN TrimRow(RowAt(sheet, rq.rowIndex)) ELSE <<>>
           ed == DecodeRow(values)
           fd == MergeExisting(ed, rq.data, rq.uuid)
       IN /\ req' = [req EXCEPT ![r] =
                       IF values = <<>> THEN HandlerCatch(rq, "type")
                       ELSE [rq EXCEPT !.existingData = ed,
                                       !.merged = TRUE,
                                       !.finalData = fd,
                                       !.sheetData = EncodeRow(fd),
                                       !.pc = "update"]]
          /\ jar' = IF values = <<>> THEN JarAfter(req'[r]) ELSE jar
    /\ UNCHANGED <<sheet, now, minted, started, serial>>

\* updateRow(rowIndex, sheetData)
updateRow(r) ==
    /\ req[r].pc = "update"
    /\ sheet' = WriteRow(sheet, req[r].rowIndex, req[r].sheetData)
    /\ req' = [req EXCEPT ![r] = AfterWrite(Called(req[r]), "update")]
    /\ UNCHANGED <<jar, now, minted, started, serial>>

\* appendToSheet, step 1: spreadsheets.get returns the sheet id
GetSheetId(r) ==
    /\ req[r].pc = "meta"
    /\ req' = [req EXCEPT ![r] = [Called(req[r]) EXCEPT !.pc = "insertRange"]]
    /\ UNCHANGED <<sheet, jar, now, minted, started, serial>>

\* appendToSheet, step 2: the blank row is inserted at row 2
InsertRange(r) ==
    /\ req[r].pc = "insertRange"
    /\ sheet' = InsertRowAtTop(sheet)
    /\ req' = [req EXCEPT ![r] = [Called(req[r]) EXCEPT !.pc = "writeTop"]]
    /\ UNCHANGED <<jar, now, minted, started, serial>>

\* appendToSheet, step 3: the values are written to A2:T2
WriteTop(r) ==
    /\ req[r].pc = "writeTop"
    /\ sheet' = WriteRow(sheet, FirstDataRow, req[r].sheetData)
    /\ req' = [req EXCEPT ![r] = AfterWrite(Called(req[r]), "insert")]
    /\ UNCHANGED <<jar, now, minted, started, serial>>

\* a Sheets call rejects: the helper rethrows and the handler's catch answers
StoreFail(r) ==
    /\ CallOf(req[r].pc) # "none"
    /\ req' = [req EXCEPT ![r] = HandlerCatch(Called(req[r]), "store")]
    /\ jar' = JarAfter(req'[r])
    /\ UNCHANGED <<sheet, now, minted, started, serial>>

\* the user confirmation follows the owner notification in either part
MailOwnerThenUserInAnyPart(r) ==
    /\ req[r].pc = "mailOwner"
    /\ LET rq == [req[r] EXCEPT !.mails = Append(@, "owner")]
       IN req' = [req EXCEPT ![r] =
                    IF Truthy(Get(rq.finalData, "email"))
                    THEN [rq EXCEPT !.pc = "mailUser"]
                    ELSE IF rq.part = "1" THEN Respond(rq, 200)
                         ELSE FinishPart2(rq)]
    /\ jar' = IF req'[r].pc = "done" THEN JarAfter(req'[r]) ELSE jar
    /\ UNCHANGED <<sheet, now, minted, started, serial>>

\* the owner notification was sent
MailOwner(r) ==
    /\ req[r].pc = "mailOwner"
    /\ LET rq == [req[r] EXCEPT !.mails = Append(@, "owner")]
       IN req' = [req EXCEPT ![r] =
                    IF rq.part = "1" THEN Respond(rq, 200)
                    ELSE IF Truthy(Get(rq.finalData, "email"))
                         THEN [rq EXCEPT !.pc = "mailUser"]
                         ELSE FinishPart2(rq)]
    /\ jar' = IF req'[r].pc = "done" THEN JarAfter(req'[r]) ELSE jar
    /\ UNCHANGED <<sheet, now, minted, started, serial>>

\* the user confirmation was sent
MailUser(r) ==
    /\ req[r].pc = "mailUser"
    /\ req' = [req EXCEPT ![r] =
                 FinishPart2([req[r] EXCEPT
                                 !.mails = Append(@, req[r].finalData.email)])]
    /\ jar' = JarAfter(req'[r])
    /\ UNCHANGED <<sheet, now, minted, started, serial>>

\* sendEmail rejects: it rethrows and the handler's catch answers
MailFail(r) ==
    /\ req[r].pc \in {"mailOwner", "mailUser"}
    /\ req' = [req EXCEPT ![r] = HandlerCatch(req[r], "mail")]
    /\ jar' = JarAfter(req'[r])
    /\ UNCHANGED <<sheet, now, minted, started, serial>>

Next ==
    \/ \E r \in Slots : Submit(r)
    \/ \E r \in Slots : Find(r)
    \/ \E r \in Slots : ReadExisting(r)
    \/ \E r \in Slots : updateRow(r)
    \/ \E r \in Slots : GetSheetId(r)
    \/ \E r \in Slots : InsertRange(r)
    \/ \E r \in Slots : WriteTop(r)
    \/ \E r \in Slots : StoreFail(r)
    \/ \E r \in Slots : MailOwner(r)
    \/ \E r \in Slots : MailUser(r)
    \/ \E r \in Slots : MailFail(r)

Spec == Init /\ [][Next]_vars

-----------------------------------------------------------------------------
(* Properties of the merge *)

Written(r) == req[r].wrote # "none"

Updated(r) == req[r].wrote = "update"

Inserted(r) == req[r].wrote = "insert"

Done(r) == req[r].pc = "done"

\* C1: whenever a phase-2 submission has located an existing row R and
\* written the merged row back, the written row has R's session id in the
\* uuid column and R's created_at in the timestamp column, whatever keys the
\* payload carries.
C1_IdentityFromExisting ==
    \A r \in Slots :
        (req[r].merged /\ Updated(r)) =>
            /\ req[r].sheetData[ColIndex("uuid")] = req[r].existingData.uuid
            /\ req[r].sheetData[ColIndex("timestamp")]
                   = req[r].existingData.timestamp

\* the schema fields other than the two identity fields
ContentColumns ==
    {sheetColumns[i] : i \in 1..NumCols} \ {"uuid", "timestamp"}

\* C2: in a merge with an existing row R, a content field the payload
\* supplies non-empty is written with the payload's value, and a field the
\* payload omits or supplies as the empty string keeps R's value.
C2_MergePrecedence ==
    \A r \in Slots :
        (req[r].merged /\ Updated(r)) =>
            \A f \in ContentColumns :
                LET p == IF f \in DOMAIN req[r].data
                         THEN req[r].data[f] ELSE ""
                IN req[r].sheetData[ColIndex(f)]
                       = IF p # "" THEN p ELSE req[r].existingData[f]

\* the session ids held by the data rows, blank rows left aside
RowsOf(rows, id) == {i \in 1..Len(rows) : rows[i][1] = id}

UniqueSessionIds(rows) ==
    \A i, j \in 1..Len(rows) :
        (rows[i][1] # "" /\ rows[i][1] = rows[j][1]) => i = j

Quiet == \A r \in Slots : ~InFlight(r)

\* C3: after any sequence of requests processed one at a time, no two data
\* rows hold the same session id.
C3_UniqueSessionIds == (serial /\ Quiet) => UniqueSessionIds(sheet)

\* C4: a phase-1 submission whose session id already has a row updates that
\* row in place; it inserts a new top row only when no row was found.
C4_Phase1UpdatesInPlace ==
    \A r \in Slots :
        (req[r].part = "1" /\ Written(r)) =>
            (Inserted(r) <=> req[r].rowIndex = NotFound)

\* C5: once the store write of a request has succeeded, a failing email send
\* does not abort the request: the caller receives the 200 response.
C5_MailFailureAbsorbed ==
    \A r \in Slots :
        (Done(r) /\ Written(r) /\ req[r].threw = "mail") =>
            req[r].status = 200

-----------------------------------------------------------------------------
(* Failure handling *)

Occurrences(calls, c) == Cardinality({i \in 1..Len(calls) : calls[i] = c})

LastCall(r) == req[r].storeCalls[Len(req[r].storeCalls)]

\* C6: a request one of whose store operations failed (the scan, the read of
\* the existing row, the sheet lookup, the row insertion or the value write)
\* has ended with the 500 response, has issued the failed operation once only
\* and as its last store operation, and has sent no email.
C6_StoreFailureIsFatal ==
    \A r \in Slots :
        req[r].threw \in {"store", "type"} =>
            /\ Done(r)
            /\ req[r].status = 500
            /\ Occurrences(req[r].storeCalls, LastCall(r)) = 1
            /\ req[r].mails = <<>>

\* a value write failed after the row insertion had succeeded
C6_Witness ==
    \E r \in Slots :
        /\ req[r].threw = "store"
        /\ req[r].storeCalls = <<"scan", "meta", "insertRange", "write">>
        /\ req[r].status = 500

\* the body lacks data, lacks part, or has a part other than "1" and "2"
Malformed(rq) == ~rq.hasData \/ rq.part = Absent \/ rq.part \notin {"1", "2"}

\* C7: the arrival of a request whose body lacks data, lacks part or has a
\* part outside {"1", "2"} answers it with 400 at once, without any store
\* call, store change, email, or change of the caller's token.
C7_MalformedRejected ==
    [][\A r \in Slots :
          (started' = started + 1 /\ req'[r].seq = started'
               /\ Malformed(req'[r])) =>
              /\ req'[r].pc = "done"
              /\ req'[r].status = 400
              /\ req'[r].storeCalls = <<>>
              /\ req'[r].wrote = "none"
              /\ req'[r].mails = <<>>
              /\ req'[r].setCookie = "none"
              /\ sheet' = sheet
              /\ jar' = jar]_vars

\* a request with part "3" was rejected while the caller held a token and
\* the store held rows
C7_Witness ==
    \E r \in Slots :
        /\ req[r].status = 400
        /\ req[r].part = "3"
        /\ req[r].cookie # Absent
        /\ jar = req[r].cookie
        /\ sheet # <<>>
        /\ sheet = req[r].pre

-----------------------------------------------------------------------------
(* The two-phase scenario *)

\* the payload supplies field f (the phone also through its two subfields)
Supplies(data, f) ==
    \/ f \in DOMAIN data
    \/ f = "phone" /\ {"phone_country_code", "phone_number"} \cap DOMAIN data # {}

\* r1 is a successful phase-1 request without token, r2 the next request,
\* a successful phase-2 request carrying the token r1 issued; neither
\* overlapped another request and nothing arrived since
PhaseOneThenTwo(r1, r2) ==
    /\ r1 # r2
    /\ req[r1].part = "1" /\ req[r1].cookie = Absent
    /\ req[r1].status = 200 /\ req[r1].alone
    /\ req[r2].seq = req[r1].seq + 1 /\ req[r2].seq = started
    /\ req[r2].part = "2" /\ req[r2].cookie = req[r1].uuid
    /\ req[r2].status = 200 /\ req[r2].alone

\* C8: phase 1 without token inserted exactly one new row and set the
\* token; the following phase 2 carrying that token located that row, wrote
\* the merged record to the same position without changing any other row or
\* the number of rows, kept name, phone and moving_date where its payload
\* does not supply them, and cleared the token.
C8_TwoPhaseScenario ==
    \A r1, r2 \in Slots :
        PhaseOneThenTwo(r1, r2) =>
            /\ Inserted(r1)
            /\ req[r2].pre = <<req[r1].sheetData>> \o req[r1].pre
            /\ req[r1].setCookie = "set"
            /\ req[r2].jarBefore = req[r1].uuid
            /\ req[r2].rowIndex = FirstDataRow
            /\ req[r2].merged
            /\ Updated(r2)
            /\ Len(sheet) = Len(req[r2].pre)
            /\ \A i \in 2..Len(sheet) : sheet[i] = req[r2].pre[i]
            /\ sheet[1] = req[r2].sheetData
            /\ sheet[1][ColIndex("uuid")] = req[r1].uuid
            /\ \A f \in {"name", "phone", "moving_date"} :
                   ~Supplies(req[r2].data, f) =>
                       sheet[1][ColIndex(f)] = req[r1].sheetData[ColIndex(f)]
            /\ req[r2].setCookie = "clear"
            /\ jar = Absent

\* the scenario with the contact payload in phase 1 and the address payload
\* in phase 2, on a store that already held a row
C8_Witness ==
    \E r1, r2 \in Slots :
        /\ PhaseOneThenTwo(r1, r2)
        /\ req[r1].data = DataContact
        /\ req[r2].data = DataAddress
        /\ req[r1].pre # <<>>
        /\ sheet[1][ColIndex("name")] = "Jane"
        /\ sheet[1][ColIndex("phone")] = "+15551234"
        /\ sheet[1][ColIndex("current_address")] = "1 Main St"

\* a phase-2 request whose session id had no row on arrival, that has
\* completed its store write, overlapped no other request and is the latest
Phase2Miss(r) ==
    /\ req[r].part = "2"
    /\ RowsOf(req[r].pre, req[r].uuid) = {}
    /\ Written(r)
    /\ req[r].alone
    /\ req[r].seq = started

\* C9: a phase-2 submission whose session id has no row in the store is
\* written by insert: the store is the rows it held before under exactly one
\* new top row, which carries the resolved session id and the current time
\* as created_at.
C9_Phase2MissInserts ==
    \A r \in Slots :
        Phase2Miss(r) =>
            /\ req[r].rowIndex = NotFound
            /\ Inserted(r)
            /\ ~req[r].merged
            /\ Len(sheet) = Len(req[r].pre) + 1
            /\ \A i \in 1..Len(req[r].pre) : sheet[i + 1] = req[r].pre[i]
            /\ sheet[1][ColIndex("uuid")] = req[r].uuid
            /\ sheet[1][ColIndex("timestamp")] = TimeStr(now)

\* a successful phase 2 without token whose payload carries a never-stored
\* id and a timestamp key, on a store that already held a written row
C9_Witness ==
    \E r \in Slots :
        /\ Phase2Miss(r)
        /\ req[r].status = 200
        /\ req[r].pre # <<>>
        /\ ~IsBlank(req[r].pre[1])
        /\ req[r].cookie = Absent
        /\ "timestamp" \in DOMAIN req[r].data

-----------------------------------------------------------------------------
(* The locate-then-write race *)

\* r1 and r2 are the two latest requests, r1 arrived on a quiet server and
\* r2 while r1 was in flight; both are phase 2 for one session id that had
\* no row, both saw "not found" and both completed an insert
RacingInserts(r1, r2) ==
    /\ r1 # r2
    /\ req[r1].quiet /\ ~req[r2].quiet
    /\ req[r2].seq = req[r1].seq + 1 /\ req[r2].seq = started
    /\ req[r1].part = "2" /\ req[r2].part = "2"
    /\ req[r1].uuid = req[r2].uuid
    /\ RowsOf(req[r1].pre, req[r1].uuid) = {}
    /\ req[r1].rowIndex = NotFound /\ req[r2].rowIndex = NotFound
    /\ Inserted(r1) /\ Inserted(r2)

\* C10: two concurrent phase-2 submissions for one never-stored session id
\* that both saw "not found" have both inserted: the store has two rows more
\* than before, the top one written by one of them and the second one by the
\* other, or left blank when the two inserts interleaved.
C10_BothInsert ==
    \A r1, r2 \in Slots :
        RacingInserts(r1, r2) =>
            /\ Len(sheet) = Len(req[r1].pre) + 2
            /\ \A i \in 1..Len(req[r1].pre) : sheet[i + 2] = req[r1].pre[i]
            /\ \/ sheet[1] = req[r1].sheetData
                    /\ sheet[2] \in {req[r2].sheetData, BlankRow}
               \/ sheet[1] = req[r2].sheetData
                    /\ sheet[2] \in {req[r1].sheetData, BlankRow}

\* the store holds two rows for the one session id
C10_Witness ==
    \E r1, r2 \in Slots :
        /\ RacingInserts(r1, r2)
        /\ Cardinality(RowsOf(sheet, req[r1].uuid)) = 2

-----------------------------------------------------------------------------
(* The session token *)

\* request r is answered in this step
Answered(r) == req[r].pc # "done" /\ req'[r].pc = "done"

\* C11: the success response of a phase-1 request sets the caller's token
\* to the session id of that response, the success response of a phase-2
\* request clears the caller's token, and a phase-2 request never holds a
\* Set-Cookie that sets the token.
C11_TokenLifecycle ==
    [][\A r \in Slots :
          /\ (Answered(r) /\ req'[r].status = 200 /\ req'[r].part = "1") =>
                 (req'[r].setCookie = "set" /\ jar' = req'[r].uuid)
          /\ (Answered(r) /\ req'[r].status = 200 /\ req'[r].part = "2") =>
                 (req'[r].setCookie = "clear" /\ jar' = Absent)
          /\ req'[r].part = "2" => req'[r].setCookie # "set"]_vars

\* a phase-1 request has set the token and the phase-2 request that carried
\* it has cleared it
C11_Witness ==
    \E r1, r2 \in Slots :
        /\ req[r1].part = "1" /\ req[r1].status = 200
        /\ req[r1].jarBefore = Absent
        /\ req[r2].part = "2" /\ req[r2].status = 200
        /\ req[r2].jarBefore = req[r1].uuid
        /\ jar = Absent

-----------------------------------------------------------------------------
(* The insert at the top *)

\* the latest request, which overlapped no other request and has completed
\* an insert
LoneInsert(r) ==
    /\ Inserted(r)
    /\ req[r].alone
    /\ req[r].seq = started

\* C12: an insert that no other store write interleaves with leaves the new
\* record at the first data position (row 2; the header row 1 lies outside
\* every range the insert addresses) and every row stored before, with its
\* content and in the same order, exactly one position lower.
C12_InsertAtTop ==
    \A r \in Slots :
        LoneInsert(r) =>
            /\ RowAt(sheet, FirstDataRow) = req[r].sheetData
            /\ Len(sheet) = Len(req[r].pre) + 1
            /\ \A n \in FirstDataRow..(Len(req[r].pre) + 1) :
                   RowAt(sheet, n + 1) = RowAt(req[r].pre, n)

\* a phase-1 insert on top of two rows stored before
C12_Witness ==
    \E r \in Slots :
        /\ LoneInsert(r)
        /\ req[r].part = "1"
        /\ Len(req[r].pre) = 2
        /\ ~IsBlank(req[r].pre[1])
        /\ req[r].pre[1] # req[r].pre[2]
        /\ req[r].pre[1] # req[r].sheetData

-----------------------------------------------------------------------------
(* Session resolution *)

\* the request passed validation, so its session id is resolved
Resolved(r) == req[r].uuid # Absent

\* the id was produced by uuidv4() and no row of the store held it when the
\* request arrived
NewlyMinted(r) ==
    /\ \E n \in 1..minted : req[r].uuid = MintedId(n)
    /\ RowsOf(req[r].pre, req[r].uuid) = {}
    /\ req[r].uuid # req[r].jarBefore

\* the id the request locates with, writes and would answer with
UsedThroughout(r) ==
    /\ req[r].sheetData # <<>> =>
           req[r].sheetData[ColIndex("uuid")] = req[r].uuid
    /\ (req[r].rowIndex # NotFound /\ req[r].alone) =>
           RowAt(req[r].pre, req[r].rowIndex)[ColIndex("uuid")] = req[r].uuid

\* C13 as stated: the session id of a request is its token when the token
\* is present and non-empty, and a newly minted identifier, different from
\* every session id in the store, whenever the token is absent or empty.
C13_TokenOrMinted ==
    \A r \in Slots :
        Resolved(r) =>
            IF Truthy(req[r].cookie) THEN req[r].uuid = req[r].cookie
            ELSE NewlyMinted(r)

\* C13 as amended: the session id of a request is its token when the token
\* is present and non-empty; otherwise the uuid of the payload when that is
\* present and non-empty; otherwise a newly minted identifier, different
\* from every session id in the store.  That id is the one written to the
\* uuid column.
C13_TokenPayloadOrMinted ==
    \A r \in Slots :
        Resolved(r) =>
            /\ UsedThroughout(r)
            /\ IF Truthy(req[r].cookie) THEN req[r].uuid = req[r].cookie
               ELSE IF "uuid" \in DOMAIN req[r].data /\ req[r].data.uuid # ""
                    THEN req[r].uuid = req[r].data.uuid
                    ELSE NewlyMinted(r)

\* one request used its token although its payload carried another id, and
\* one request without token and without payload id got a minted id while
\* the store held rows
C13_Witness ==
    \E r1, r2 \in Slots :
        /\ Resolved(r1) /\ Truthy(req[r1].cookie)
        /\ "uuid" \in DOMAIN req[r1].data
        /\ req[r1].data.uuid # req[r1].cookie
        /\ req[r1].uuid = req[r1].cookie
        /\ Resolved(r2) /\ req[r2].cookie = Absent
        /\ "uuid" \notin DOMAIN req[r2].data
        /\ req[r2].pre # <<>>
        /\ NewlyMinted(r2)

-----------------------------------------------------------------------------
(* The phone column *)

\* the record of request r has been encoded
Encoded(r) == req[r].sheetData # <<>>

HasCombinedPhone(fd) == "phone" \in DOMAIN fd /\ fd.phone # ""

HasBothSubfields(fd) ==
    /\ "phone_country_code" \in DOMAIN fd /\ fd.phone_country_code # ""
    /\ "phone_number" \in DOMAIN fd /\ fd.phone_number # ""

\* C14: a record that carries a combined phone value is encoded with that
\* value in the phone column; the phone column is synthesized from the two
\* subfields only when the record has both of them and no combined value.
C14_CombinedPhoneAsIs ==
    \A r \in Slots :
        Encoded(r) =>
            LET fd == req[r].finalData
                written == req[r].sheetData[ColIndex("phone")]
            IN /\ HasCombinedPhone(fd) => written = fd.phone
               /\ (~HasCombinedPhone(fd) /\ HasBothSubfields(fd)) =>
                      written = fd.phone_country_code \o fd.phone_number
               /\ (~HasCombinedPhone(fd) /\ ~HasBothSubfields(fd)) =>
                      written = ""

-----------------------------------------------------------------------------
(* The row codec on its own: a record of the schema is encoded, stored,    *)
(* read back and decoded                                                   *)

\* the columns whose value varies, the last column among them
CodecColumns == {"uuid", "phone", "email", "distance"}

CodecValues == {"", "x", "y z"}

\* records whose fields are exactly the schema columns, with string values
CodecRecords ==
    {[col \in {sheetColumns[i] : i \in 1..NumCols} |->
         IF col \in CodecColumns THEN v[col] ELSE ""] :
     v \in [CodecColumns -> CodecValues]}

CodecInit ==
    /\ sheet = <<>>
    /\ \E rec \in CodecRecords :
           req = [r \in Slots |->
                    IF r = 1
                    THEN [IdleReq EXCEPT !.pc = "encode", !.finalData = rec]
                    ELSE IdleReq]
    /\ jar = Absent
    /\ now = 0
    /\ minted = 0
    /\ started = 0
    /\ serial = TRUE

\* sheetData = sheetColumns.map(...), written to row 2
CodecEncode ==
    /\ req[1].pc = "encode"
    /\ LET row == EncodeRow(req[1].finalData)
       IN /\ req' = [req EXCEPT ![1].sheetData = row, ![1].pc = "decode"]
          /\ sheet' = WriteRow(sheet, FirstDataRow, row)
    /\ UNCHANGED <<jar, now, minted, started, serial>>

\* the row is read back without its trailing empty cells and decoded
CodecDecode ==
    /\ req[1].pc = "decode"
    /\ req' = [req EXCEPT
                 ![1].existingData =
                     DecodeRow(TrimRow(RowAt(sheet, FirstDataRow))),
                 ![1].pc = "decoded"]
    /\ UNCHANGED <<sheet, jar, now, minted, started, serial>>

CodecNext == CodecEncode \/ CodecDecode

CodecSpec == CodecInit /\ [][CodecNext]_vars

\* C15: a record whose fields are exactly the 20 schema columns is encoded
\* to exactly 20 values in schema order, decoding what was stored yields
\* the same record, and every column beyond the end of a shorter row
\* decodes to the empty string.
C15_CodecRoundTrip ==
    /\ req[1].pc \in {"decode", "decoded"} =>
           /\ Len(req[1].sheetData) = 20
           /\ \A i \in 1..20 :
                  req[1].sheetData[i] = req[1].finalData[sheetColumns[i]]
    /\ req[1].pc = "decoded" =>
           /\ req[1].existingData = req[1].finalData
           /\ \A i \in 1..20 :
                  i > Len(TrimRow(sheet[1])) =>
                      req[1].existingData[sheetColumns[i]] = ""

\* a record with an email and no distance came back from a row of five
\* cells
C15_Witness ==
    /\ req[1].pc = "decoded"
    /\ req[1].finalData.email = "y z"
    /\ req[1].finalData.uuid = ""
    /\ Len(TrimRow(sheet[1])) = 5
    /\ req[1].existingData.email = "y z"

-----------------------------------------------------------------------------
(* The row lookup *)

\* the scan of request r returns in this step
Located(r) == req[r].pc = "find" /\ req'[r].pc \in {"read", "meta"}

\* the session id in the uuid column of spreadsheet row n (header = row 1)
SessionAt(n) == sheet[n - 1][1]

\* C16: the lookup returns the row number (header = row 1, first data row
\* = row 2) of the topmost data row whose session id equals the id exactly,
\* and the not-found value if and only if no data row holds the id.
C16_TopmostMatch ==
    [][\A r \in Slots :
          Located(r) =>
              LET n == req'[r].rowIndex
                  id == req[r].uuid
              IN /\ (n = NotFound) <=>
                        (\A k \in 2..(Len(sheet) + 1) : SessionAt(k) # id)
                 /\ n # NotFound =>
                        /\ n \in 2..(Len(sheet) + 1)
                        /\ SessionAt(n) = id
                        /\ \A k \in 2..(n - 1) : SessionAt(k) # id]_vars

\* the lookup returned row 2 while rows 2 and 3 both held the id
C16_Witness ==
    \E r \in Slots :
        /\ req[r].pc \in {"read", "meta"}
        /\ req[r].rowIndex = 2
        /\ Len(sheet) >= 2
        /\ sheet[1][1] = req[r].uuid
        /\ sheet[2][1] = req[r].uuid

-----------------------------------------------------------------------------
(* The order of the steps of a request *)

IsPrefix(a, b) == Len(a) <= Len(b) /\ SubSeq(b, 1, Len(a)) = a

\* the store calls of a request so far: the scan, then either the read of
\* the existing row and the value write, or the three calls of the insert
CallsInOrder(rq) ==
    \/ IsPrefix(rq.storeCalls, <<"scan", "read", "write">>)
    \/ IsPrefix(rq.storeCalls, <<"scan", "meta", "insertRange", "write">>)

\* the emails of a request so far: the owner notification, then the user
\* confirmation
MailsInOrder(rq) ==
    \/ rq.mails = <<>>
    \/ rq.mails = <<"owner">>
    \/ /\ Len(rq.mails) = 2
       /\ rq.mails[1] = "owner"
       /\ rq.part = "2"
       /\ "email" \in DOMAIN rq.finalData
       /\ rq.finalData.email # ""
       /\ rq.mails[2] = rq.finalData.email

StepsInOrder(rq) ==
    /\ CallsInOrder(rq)
    /\ MailsInOrder(rq)
    /\ rq.sheetData # <<>> => rq.storeCalls # <<>>
    /\ rq.wrote # "none" =>
           (rq.sheetData # <<>> /\ rq.threw \in {"none", "mail"})
    /\ rq.mails # <<>> => rq.wrote # "none"
    /\ rq.status # 0 <=> rq.pc = "done"
    /\ rq.status = 200 =>
           /\ rq.wrote # "none"
           /\ rq.mails # <<>>
           /\ rq.threw = "none"
           /\ (rq.part = "2" /\ Truthy(Get(rq.finalData, "email"))) =>
                  Len(rq.mails) = 2

\* C17: in every request the scan comes first, the record is merged and
\* encoded before the store write, no email is sent before the request's
\* store write has succeeded, the user confirmation is sent only in phase 2
\* with a non-empty email in the final record, and the one response comes
\* after all store and email steps: an answered request takes no further
\* step.
C17_StepOrder ==
    [][\A r \in Slots :
          /\ StepsInOrder(req'[r])
          /\ (req[r].status # 0 /\ req'[r].seq = req[r].seq) =>
                 req'[r] = req[r]]_vars

\* a phase-2 request was answered with success after the scan, the read,
\* the write and both emails
C17_Witness ==
    \E r \in Slots :
        /\ req[r].status = 200
        /\ req[r].part = "2"
        /\ req[r].storeCalls = <<"scan", "read", "write">>
        /\ Len(req[r].mails) = 2
        /\ ~req[r].alone

-----------------------------------------------------------------------------
(* The number of data rows *)

\* the rows of the store that hold a record
DataRows(rows) == Cardinality({i \in 1..Len(rows) : ~IsBlank(rows[i])})

CompletesInsert(r) == req[r].pc = "writeTop" /\ req'[r].wrote = "insert"

CompletesUpdate(r) == req[r].pc = "update" /\ req'[r].wrote = "update"

\* C18: in every step of every run, sequential or interleaved, the number of
\* data rows does not decrease; the step that completes an insert (the value
\* write into the row it inserted) raises it by exactly one; the step of an
\* update-in-place leaves it unchanged.
C18_RowCount ==
    [][/\ DataRows(sheet') >= DataRows(sheet)
       /\ \A r \in Slots :
              /\ CompletesInsert(r) => DataRows(sheet') = DataRows(sheet) + 1
              /\ CompletesUpdate(r) => DataRows(sheet') = DataRows(sheet)]_vars

-----------------------------------------------------------------------------
(* The row an update-in-place overwrites *)

\* C19: the row an update-in-place overwrites holds, at the moment of the
\* write, the session id of the request that writes, whatever other requests
\* did between that request's locate step and its write.
C19_UpdateOwnRow ==
    [][\A r \in Slots :
          CompletesUpdate(r) =>
              /\ req[r].rowIndex - 1 \in 1..Len(sheet)
              /\ RowAt(sheet, req[r].rowIndex)[ColIndex("uuid")] = req[r].uuid
      ]_vars

-----------------------------------------------------------------------------
(* Two interleaved inserts for different sessions *)

InterleavedInserts(r1, r2) ==
    /\ r1 # r2
    /\ req[r1].quiet /\ ~req[r2].quiet
    /\ req[r2].seq = req[r1].seq + 1 /\ req[r2].seq = started
    /\ req[r1].uuid # req[r2].uuid
    /\ Inserted(r1) /\ Inserted(r2)

\* C20: after two inserts for different session ids have both completed,
\* however their row insertions and value writes interleaved, the two top
\* rows of the store are the two requests' rows, one each, and every row
\* stored before lies below them unchanged: neither record is overwritten
\* and no blank row is left.
C20_BothRecordsKept ==
    \A r1, r2 \in Slots :
        InterleavedInserts(r1, r2) =>
            /\ Len(sheet) = Len(req[r1].pre) + 2
            /\ {sheet[1], sheet[2]} = {req[r1].sheetData, req[r2].sheetData}
            /\ SubSeq(sheet, 3, Len(sheet)) = req[r1].pre

-----------------------------------------------------------------------------
(* Error responses *)

Failed(rq) == rq.status \in {400, 500}

\* C21: the step that answers a request with 400 or 500 leaves the caller's
\* token unchanged, and every step that changes the token is the success
\* response of a phase-1 request, which sets it, or of a phase-2 request,
\* which clears it.
C21_ErrorKeepsToken ==
    [][/\ \A r \in Slots :
              (Answered(r) /\ Failed(req'[r])) => jar' = jar
       /\ jar' # jar =>
              \E r \in Slots :
                  /\ Answered(r)
                  /\ req'[r].status = 200
                  /\ \/ req'[r].part = "1" /\ jar' = req'[r].uuid
                     \/ req'[r].part = "2" /\ jar' = Absent]_vars

\* the rows up to the last one that holds a value: a read of the store
\* cannot tell blank rows at the bottom from no rows
RECURSIVE Stored(_)
Stored(rows) ==
    IF rows = <<>> THEN <<>>
    ELSE IF IsBlank(rows[Len(rows)])
         THEN Stored(SubSeq(rows, 1, Len(rows) - 1))
         ELSE rows

\* the latest request, which overlapped no other request and was answered
\* with 500
LoneFailure(r) ==
    /\ Done(r)
    /\ req[r].status = 500
    /\ req[r].alone
    /\ req[r].seq = started

\* C22: after a request that ended with 500, and that no other request
\* overlapped, the store holds the rows it held when the request arrived,
\* whichever step failed: a store call, the value write that follows the row
\* insertion, or an email after the store write.
C22_ErrorKeepsStore ==
    \A r \in Slots : LoneFailure(r) => Stored(sheet) = Stored(req[r].pre)

====
